---- MODULE Spec2Model ----
(***************************************************************************)
(* Costing engine of leap-erp: rate catalog, parameter cascade, line item  *)
(* pricing pipeline with its per-instance memo, aggregation into section   *)
(* subtotals and sheet totals, and the inline-edit endpoints.              *)
(*                                                                         *)
(* Decimals are modelled as scaled integers:                               *)
(*   money figures (quantized to 0.01)        in cents                     *)
(*   base_unit_cost (in-memory Decimal)       in 1/1000 of a currency unit *)
(*   percentages (40 means 40%)               in 1/1000 of a percent       *)
(*   quantity                                 in 1/100                     *)
(*   exchange rates and conversion factors    in 1/1000000                 *)
(* Decimal.quantize uses the default context rounding, ROUND_HALF_EVEN.    *)
(* None is the empty tuple << >>, a present value v is the tuple <<v>>.    *)
(***************************************************************************)
EXTENDS Integers, Sequences, FiniteSets, TLC

(* ------------------------------------------------------------------ *)
(* Scales                                                               *)
(* ------------------------------------------------------------------ *)
Hundred == 100
Micro == 1000000
\* quantity has decimal_places=2
QtyUnit == Hundred
\* in-memory costs and percentages may carry one decimal more than the
\* two the database keeps
CostUnit == 10 * Hundred
PctUnit == 10 * Hundred
\* cost units per cent
CostPerCent == CostUnit \div Hundred

\* an effective fraction is (pct in PctUnit) / FracDen
FracDen == Hundred * PctUnit

None == << >>
Some(v) == << v >>
IsNone(x) == x = << >>
Val(x) == x[1]

(* ------------------------------------------------------------------ *)
(* Exact decimal arithmetic on scaled integers                          *)
(* ------------------------------------------------------------------ *)
\* quotient and remainder of a*b by d (a, b >= 0, d > 0): computed
\* directly when the product is below 2^31, otherwise one decimal digit of
\* a at a time so that no intermediate product leaves the range; the
\* value is exactly divmod(a*b, d)
RECURSIVE MulDivQR(_, _, _)
MulDivQR(a, b, d) ==
    IF a < 10 \/ b <= 2147483647 \div a
    THEN [q |-> (a * b) \div d, r |-> (a * b) % d]
    ELSE LET h == MulDivQR(a \div 10, b, d)
             t == 10 * h.r + (a % 10) * b
         IN [q |-> 10 * h.q + (t \div d), r |-> t % d]

\* floor quotient and non-negative remainder of a*b by d for a and b of
\* any sign
SignedMulDivQR(a, b, d) ==
    LET p == MulDivQR(IF a < 0 THEN -a ELSE a, IF b < 0 THEN -b ELSE b, d)
    IN IF (a < 0) = (b < 0) THEN p
       ELSE IF p.r = 0 THEN [q |-> -p.q, r |-> 0]
       ELSE [q |-> -p.q - 1, r |-> d - p.r]

\* ROUND_HALF_EVEN of n + r/d, with n an integer and 0 <= r < d
RoundHalfEven(n, r, d) ==
    IF 2 * r < d THEN n
    ELSE IF 2 * r > d THEN n + 1
    ELSE IF n % 2 = 0 THEN n ELSE n + 1

\* (n + a*b/d) rounded half-even to an integer
QuantizeSum(n, a, b, d) ==
    LET p == SignedMulDivQR(a, b, d) IN RoundHalfEven(n + p.q, p.r, d)

\* (a*b/d) rounded half-even to an integer
Quantize(a, b, d) == QuantizeSum(0, a, b, d)

(* ------------------------------------------------------------------ *)
(* CostingLineItem instances                                            *)
(* ------------------------------------------------------------------ *)
\* the six percentage fields of a line item, with the sheet default each
\* falls back to
PctFields == {"discount_pct", "shipping_pct", "customs_pct",
              "finances_pct", "installation_pct", "margin"}
SheetField ==
    [discount_pct |-> "discount_rate", shipping_pct |-> "shipping_rate",
     customs_pct |-> "customs_rate", finances_pct |-> "finances_rate",
     installation_pct |-> "installation_rate", margin |-> "margin"]

\* the memoized properties
Props == {"discount_amount", "unit_cost", "total_cost",
          "exchange_rate_to_sar", "unit_cost_sar", "base_unit_price",
          "base_total_price", "final_unit_price", "final_total_price"}

EmptyMemo == [k \in {} |-> 0]

\* __init__: a freshly constructed instance of a stored row; parent is
\* the sheet row that section.costing_sheet resolves to
NewInstance(row, parent) ==
    [quantity |-> row.quantity,
     supplier_currency |-> row.supplier_currency,
     base_unit_cost |-> row.base_unit_cost,
     discount_pct |-> row.discount_pct,
     shipping_pct |-> row.shipping_pct,
     customs_pct |-> row.customs_pct,
     finances_pct |-> row.finances_pct,
     installation_pct |-> row.installation_pct,
     margin |-> row.margin,
     costing_sheet |-> parent,
     _rates_cache |-> None,
     _sheet_cache |-> None,
     _computed |-> EmptyMemo]

set_exchange_rates_cache(o, rates_dict) ==
    [o EXCEPT !._rates_cache = Some(rates_dict)]

set_sheet_cache(o, sh) ==
    [o EXCEPT !._sheet_cache = Some(sh)]

sheet(o) ==
    IF ~IsNone(o._sheet_cache) THEN Val(o._sheet_cache) ELSE o.costing_sheet

(* ------------------------------------------------------------------ *)
(* Parameter cascade: percentages in PctUnit, used as pct / FracDen     *)
(* ------------------------------------------------------------------ *)
effective_margin_ZeroInherits(o) ==
    IF ~IsNone(o.margin) /\ Val(o.margin) # 0
    THEN Val(o.margin) ELSE sheet(o).margin

\* a null margin override read as 0 instead of the sheet's margin
effective_margin_NullIsZero(o) ==
    IF ~IsNone(o.margin) THEN Val(o.margin) ELSE 0

effective_margin(o) ==
    IF ~IsNone(o.margin) THEN Val(o.margin) ELSE sheet(o).margin

effective_discount_pct(o) ==
    IF ~IsNone(o.discount_pct) THEN Val(o.discount_pct)
    ELSE sheet(o).discount_rate

effective_shipping_pct(o) ==
    IF ~IsNone(o.shipping_pct) THEN Val(o.shipping_pct)
    ELSE sheet(o).shipping_rate

effective_customs_pct(o) ==
    IF ~IsNone(o.customs_pct) THEN Val(o.customs_pct)
    ELSE sheet(o).customs_rate

effective_finances_pct(o) ==
    IF ~IsNone(o.finances_pct) THEN Val(o.finances_pct)
    ELSE sheet(o).finances_rate

effective_installation_pct(o) ==
    IF ~IsNone(o.installation_pct) THEN Val(o.installation_pct)
    ELSE sheet(o).installation_rate

\* the effective value of a percentage field by name
effective(o, f) ==
    CASE f = "margin" -> effective_margin(o)
      [] f = "discount_pct" -> effective_discount_pct(o)
      [] f = "shipping_pct" -> effective_shipping_pct(o)
      [] f = "customs_pct" -> effective_customs_pct(o)
      [] f = "finances_pct" -> effective_finances_pct(o)
      [] f = "installation_pct" -> effective_installation_pct(o)

(* ------------------------------------------------------------------ *)
(* Pricing pipeline: each property answers from _computed when the key  *)
(* is there, and computes otherwise.  cat is the ExchangeRate table at  *)
(* the time of the read.                                                *)
(* ------------------------------------------------------------------ *)
Memoized(o, k) == k \in DOMAIN o._computed

discount_amount(o) ==
    IF Memoized(o, "discount_amount") THEN o._computed["discount_amount"]
    ELSE Quantize(o.base_unit_cost, effective_discount_pct(o),
                  CostPerCent * FracDen)

unit_cost(o) ==
    IF Memoized(o, "unit_cost") THEN o._computed["unit_cost"]
    ELSE Quantize(o.base_unit_cost - CostPerCent * discount_amount(o),
                  1, CostPerCent)

total_cost(o) ==
    IF Memoized(o, "total_cost") THEN o._computed["total_cost"]
    ELSE Quantize(unit_cost(o), o.quantity, QtyUnit)

\* the uncached branch divides sar_rate by supplier_rate unguarded: a
\* stored supplier rate of 0 raises (DivisionByZero / InvalidOperation)
exchange_rate_raises(o, cat) ==
    /\ ~Memoized(o, "exchange_rate_to_sar")
    /\ o.supplier_currency # "SAR"
    /\ IsNone(o._rates_cache)
    /\ o.supplier_currency \in DOMAIN cat
    /\ "SAR" \in DOMAIN cat
    /\ cat[o.supplier_currency] = 0

\* whether the missing-rate fallback branch produces the factor
exchange_rate_is_fallback(o, cat) ==
    /\ o.supplier_currency # "SAR"
    /\ IF ~IsNone(o._rates_cache)
       THEN LET rc == Val(o._rates_cache)
            IN ~(/\ o.supplier_currency \in DOMAIN rc
                 /\ "SAR" \in DOMAIN rc
                 /\ rc[o.supplier_currency] # 0
                 /\ rc["SAR"] # 0)
       ELSE ~(o.supplier_currency \in DOMAIN cat /\ "SAR" \in DOMAIN cat)

exchange_rate_to_sar_MissingIsZero(o, cat) ==
    IF Memoized(o, "exchange_rate_to_sar")
    THEN o._computed["exchange_rate_to_sar"]
    ELSE IF o.supplier_currency = "SAR" THEN Micro
    ELSE LET rc == IF ~IsNone(o._rates_cache) THEN Val(o._rates_cache)
                   ELSE cat
         IN IF o.supplier_currency \in DOMAIN rc /\ "SAR" \in DOMAIN rc
            THEN IF rc[o.supplier_currency] # 0
                 THEN Quantize(rc["SAR"], Micro, rc[o.supplier_currency])
                 ELSE Micro
            ELSE 0

exchange_rate_to_sar_SarFromCatalog(o, cat) ==
    IF Memoized(o, "exchange_rate_to_sar")
    THEN o._computed["exchange_rate_to_sar"]
    ELSE LET rc == IF ~IsNone(o._rates_cache) THEN Val(o._rates_cache)
                   ELSE cat
         IN IF o.supplier_currency = "SAR"
            THEN IF "SAR" \in DOMAIN rc THEN rc["SAR"] ELSE Micro
            ELSE IF exchange_rate_is_fallback(o, cat) THEN Micro
            ELSE Quantize(rc["SAR"], Micro, rc[o.supplier_currency])

exchange_rate_to_sar(o, cat) ==
    IF Memoized(o, "exchange_rate_to_sar")
    THEN o._computed["exchange_rate_to_sar"]
    ELSE IF o.supplier_currency = "SAR" THEN Micro
    ELSE IF ~IsNone(o._rates_cache)
    THEN LET rc == Val(o._rates_cache)
         IN IF /\ o.supplier_currency \in DOMAIN rc
               /\ "SAR" \in DOMAIN rc
               /\ rc[o.supplier_currency] # 0
               /\ rc["SAR"] # 0
            THEN Quantize(rc["SAR"], Micro, rc[o.supplier_currency])
            ELSE Micro
    ELSE IF o.supplier_currency \in DOMAIN cat /\ "SAR" \in DOMAIN cat
    THEN Quantize(cat["SAR"], Micro, cat[o.supplier_currency])
    ELSE Micro

unit_cost_sar(o, cat) ==
    IF Memoized(o, "unit_cost_sar") THEN o._computed["unit_cost_sar"]
    ELSE Quantize(unit_cost(o), exchange_rate_to_sar(o, cat), Micro)

base_unit_price_MarkupOnCost(o, cat) ==
    IF Memoized(o, "base_unit_price") THEN o._computed["base_unit_price"]
    ELSE IF effective_margin(o) >= FracDen THEN unit_cost_sar(o, cat)
    ELSE QuantizeSum(unit_cost_sar(o, cat), unit_cost_sar(o, cat),
                     effective_margin(o), FracDen)

base_unit_price_SupplierCost(o, cat) ==
    IF Memoized(o, "base_unit_price") THEN o._computed["base_unit_price"]
    ELSE IF effective_margin(o) >= FracDen THEN unit_cost(o)
    ELSE Quantize(unit_cost_sar(o, cat), FracDen,
                  FracDen - effective_margin(o))

base_unit_price(o, cat) ==
    IF Memoized(o, "base_unit_price") THEN o._computed["base_unit_price"]
    ELSE IF effective_margin(o) >= FracDen THEN unit_cost_sar(o, cat)
    ELSE Quantize(unit_cost_sar(o, cat), FracDen,
                  FracDen - effective_margin(o))

base_total_price(o, cat) ==
    IF Memoized(o, "base_total_price") THEN o._computed["base_total_price"]
    ELSE Quantize(base_unit_price(o, cat), o.quantity, QtyUnit)

total_addon_pct(o) ==
    effective_shipping_pct(o) + effective_customs_pct(o)
        + effective_finances_pct(o) + effective_installation_pct(o)

final_unit_price_AddonOnPrice(o, cat) ==
    IF Memoized(o, "final_unit_price") THEN o._computed["final_unit_price"]
    ELSE QuantizeSum(base_unit_price(o, cat), base_unit_price(o, cat),
                     total_addon_pct(o), FracDen)

final_unit_price(o, cat) ==
    IF Memoized(o, "final_unit_price") THEN o._computed["final_unit_price"]
    ELSE QuantizeSum(base_unit_price(o, cat), unit_cost_sar(o, cat),
                     total_addon_pct(o), FracDen)

\* a final total that prices a quantity of 0 as one unit
final_total_price_AtLeastOne(o, cat) ==
    IF Memoized(o, "final_total_price")
    THEN o._computed["final_total_price"]
    ELSE Quantize(final_unit_price(o, cat),
                  IF o.quantity = 0 THEN QtyUnit ELSE o.quantity, QtyUnit)

final_total_price(o, cat) ==
    IF Memoized(o, "final_total_price")
    THEN o._computed["final_total_price"]
    ELSE Quantize(final_unit_price(o, cat), o.quantity, QtyUnit)

\* a property by name
Prop(o, cat, p) ==
    CASE p = "discount_amount" -> discount_amount(o)
      [] p = "unit_cost" -> unit_cost(o)
      [] p = "total_cost" -> total_cost(o)
      [] p = "exchange_rate_to_sar" -> exchange_rate_to_sar(o, cat)
      [] p = "unit_cost_sar" -> unit_cost_sar(o, cat)
      [] p = "base_unit_price" -> base_unit_price(o, cat)
      [] p = "base_total_price" -> base_total_price(o, cat)
      [] p = "final_unit_price" -> final_unit_price(o, cat)
      [] p = "final_total_price" -> final_total_price(o, cat)

\* the memoized properties each property's body reads
DirectDeps ==
    [discount_amount |-> {},
     unit_cost |-> {"discount_amount"},
     total_cost |-> {"unit_cost"},
     exchange_rate_to_sar |-> {},
     unit_cost_sar |-> {"unit_cost", "exchange_rate_to_sar"},
     base_unit_price |-> {"unit_cost_sar"},
     base_total_price |-> {"base_unit_price"},
     final_unit_price |-> {"base_unit_price", "unit_cost_sar"},
     final_total_price |-> {"final_unit_price"}]

\* the properties whose bodies run (and store a result) when p is read
\* with the keys in done already memoized
RECURSIVE Evaluated(_, _)
Evaluated(done, p) ==
    IF p \in done THEN {}
    ELSE {p} \cup UNION {Evaluated(done, d) : d \in DirectDeps[p]}

\* reading p raises when its evaluation reaches the unguarded division
ReadRaises(o, cat, p) ==
    /\ "exchange_rate_to_sar" \in Evaluated(DOMAIN o._computed, p)
    /\ exchange_rate_raises(o, cat)

\* a read whose unit_cost body overwrites base_unit_cost with the net cost
AfterRead_NetsTheCost(o, cat, p) ==
    LET ran == Evaluated(DOMAIN o._computed, p)
        kept == IF ReadRaises(o, cat, p)
                THEN ran \cap {"unit_cost", "discount_amount"}
                ELSE ran
    IN [o EXCEPT !._computed =
            [k \in (DOMAIN o._computed) \cup kept |-> Prop(o, cat, k)],
                 !.base_unit_cost =
            IF "unit_cost" \in ran THEN CostPerCent * unit_cost(o) ELSE @]

\* the instance after reading property p: every body that ran stored its
\* result; a raise leaves only what completed before the division
\* (unit_cost and discount_amount, evaluated first by unit_cost_sar)
AfterRead(o, cat, p) ==
    LET ran == Evaluated(DOMAIN o._computed, p)
        kept == IF ReadRaises(o, cat, p)
                THEN ran \cap {"unit_cost", "discount_amount"}
                ELSE ran
    IN [o EXCEPT !._computed =
            [k \in (DOMAIN o._computed) \cup kept |-> Prop(o, cat, k)]]

\* the instance after reading each property of the sequence ps in turn,
\* stopping at the first read that raises
RECURSIVE AfterReads(_, _, _)
AfterReads(o, cat, ps) ==
    IF ps = << >> THEN o
    ELSE IF ReadRaises(o, cat, Head(ps)) THEN AfterRead(o, cat, Head(ps))
    ELSE AfterReads(AfterRead(o, cat, Head(ps)), cat, Tail(ps))

RECURSIVE AnyReadRaises(_, _, _)
AnyReadRaises(o, cat, ps) ==
    IF ps = << >> THEN FALSE
    ELSE \/ ReadRaises(o, cat, Head(ps))
         \/ AnyReadRaises(AfterRead(o, cat, Head(ps)), cat, Tail(ps))

(* ------------------------------------------------------------------ *)
(* views._conversion_rate: SAR to output currency                       *)
(* ------------------------------------------------------------------ *)
conversion_is_fallback(output_currency, rates_dict) ==
    /\ output_currency # "SAR"
    /\ ~(/\ "SAR" \in DOMAIN rates_dict
         /\ output_currency \in DOMAIN rates_dict
         /\ rates_dict["SAR"] # 0
         /\ rates_dict[output_currency] # 0)

_conversion_rate(output_currency, rates_dict) ==
    IF output_currency = "SAR" THEN Micro
    ELSE IF /\ "SAR" \in DOMAIN rates_dict
            /\ output_currency \in DOMAIN rates_dict
            /\ rates_dict["SAR"] # 0
            /\ rates_dict[output_currency] # 0
    THEN Quantize(rates_dict["SAR"], Micro, rates_dict[output_currency])
    ELSE Micro

\* templatetags mul: a SAR amount shown in the output currency
mul(value, arg) == Quantize(value, arg, Micro)

(* ------------------------------------------------------------------ *)
(* Stored records.  A database d is a record of four tables:            *)
(*   d.rates     currency_code -> rate_to_usd          (ExchangeRate)   *)
(*   d.sheets    sheet id -> sheet row                 (CostingSheet)   *)
(*   d.sections  section id -> [costing_sheet]         (CostingSection) *)
(*   d.items     item id -> line item row              (CostingLineItem)*)
(* ------------------------------------------------------------------ *)
\* a DecimalField with decimal_places=2 keeps two decimals of what is
\* saved (django.db.backends.utils.format_number quantizes)
StoreDecimal(v) == CostPerCent * Quantize(v, 1, CostPerCent)

StoreOptional(x) == IF IsNone(x) THEN x ELSE Some(StoreDecimal(Val(x)))

SectionsOf(d, sh) == {s \in DOMAIN d.sections : d.sections[s].costing_sheet = sh}
ItemsOf(d, sec) == {i \in DOMAIN d.items : d.items[i].section = sec}
SheetOfItem(d, i) == d.sections[d.items[i].section].costing_sheet

\* an item as the ORM loads it: no caches, parent reached through the FK
Loaded(d, i) == NewInstance(d.items[i], d.sheets[SheetOfItem(d, i)])

\* an item with both caches injected, as the views prepare it
Primed(d, i, rates_dict, sh) ==
    set_sheet_cache(set_exchange_rates_cache(Loaded(d, i), rates_dict), sh)

RECURSIVE SumFn(_, _)
SumFn(S, f) ==
    IF S = {} THEN 0
    ELSE LET x == CHOOSE y \in S : TRUE
         IN f[x] + SumFn(S \ {x}, f)

\* sum over S of a[i]*b[i]/den, quantized once after summation
QuantizedSumOfProducts(S, a, b, den) ==
    LET q == SumFn(S, [i \in S |-> SignedMulDivQR(a[i], b[i], den).q])
        r == SumFn(S, [i \in S |-> SignedMulDivQR(a[i], b[i], den).r])
    IN RoundHalfEven(q + (r \div den), r % den, den)

(* ------------------------------------------------------------------ *)
(* Aggregation.  inst[i] is the instance the loop reads item i through. *)
(* ------------------------------------------------------------------ *)
\* the properties one iteration of an aggregation loop reads, in the
\* order it reads them (exchange_rate_to_sar is read by unit_cost_sar)
ReadOrder ==
    <<"final_total_price", "total_cost", "discount_amount", "unit_cost",
      "base_unit_price", "base_total_price", "unit_cost_sar">>

SectionSubtotals(S, inst, cat) ==
    [subtotal |-> SumFn(S, [i \in S |-> final_total_price(inst[i], cat)]),
     total_cost |-> SumFn(S, [i \in S |-> total_cost(inst[i])]),
     base_unit_cost |->
        QuantizedSumOfProducts(S, [i \in S |-> inst[i].base_unit_cost],
            [i \in S |-> inst[i].quantity], CostPerCent * QtyUnit),
     discount |->
        QuantizedSumOfProducts(S, [i \in S |-> discount_amount(inst[i])],
            [i \in S |-> inst[i].quantity], QtyUnit),
     unit_cost |->
        QuantizedSumOfProducts(S, [i \in S |-> unit_cost(inst[i])],
            [i \in S |-> inst[i].quantity], QtyUnit),
     base_unit_price |->
        QuantizedSumOfProducts(S, [i \in S |-> base_unit_price(inst[i], cat)],
            [i \in S |-> inst[i].quantity], QtyUnit),
     base_total_price |->
        SumFn(S, [i \in S |-> base_total_price(inst[i], cat)])]

\* an add-on amount whose terms are each rounded to cents before summing
AddonAmount_RoundedPerItem(S, inst, cat, pct) ==
    SumFn(S, [i \in S |->
                Quantize(unit_cost_sar(inst[i], cat),
                         pct[i] * inst[i].quantity, FracDen * QtyUnit)])

\* the amount a percentage add-on contributes over the items of S, pct[i]
\* being the item's effective percentage
AddonAmount(S, inst, cat, pct) ==
    QuantizedSumOfProducts(S, [i \in S |-> unit_cost_sar(inst[i], cat)],
        [i \in S |-> pct[i] * inst[i].quantity], FracDen * QtyUnit)

SheetTotals_UnitPrices(S, inst, cat) ==
    [grand_total |-> SumFn(S, [i \in S |-> final_unit_price(inst[i], cat)]),
     total_cost |-> SumFn(S, [i \in S |-> total_cost(inst[i])]),
     total_base_cost |->
        QuantizedSumOfProducts(S, [i \in S |-> inst[i].base_unit_cost],
            [i \in S |-> inst[i].quantity], CostPerCent * QtyUnit),
     total_discount |->
        QuantizedSumOfProducts(S, [i \in S |-> discount_amount(inst[i])],
            [i \in S |-> inst[i].quantity], QtyUnit),
     total_margin_amount |->
        SumFn(S, [i \in S |-> base_total_price(inst[i], cat)
                                - total_cost(inst[i])]),
     total_shipping_amount |->
        AddonAmount(S, inst, cat,
                    [i \in S |-> effective_shipping_pct(inst[i])]),
     total_customs_amount |->
        AddonAmount(S, inst, cat,
                    [i \in S |-> effective_customs_pct(inst[i])]),
     total_finances_amount |->
        AddonAmount(S, inst, cat,
                    [i \in S |-> effective_finances_pct(inst[i])]),
     total_installation_amount |->
        AddonAmount(S, inst, cat,
                    [i \in S |-> effective_installation_pct(inst[i])])]

SheetTotals(S, inst, cat) ==
    [grand_total |-> SumFn(S, [i \in S |-> final_total_price(inst[i], cat)]),
     total_cost |-> SumFn(S, [i \in S |-> total_cost(inst[i])]),
     total_base_cost |->
        QuantizedSumOfProducts(S, [i \in S |-> inst[i].base_unit_cost],
            [i \in S |-> inst[i].quantity], CostPerCent * QtyUnit),
     total_discount |->
        QuantizedSumOfProducts(S, [i \in S |-> discount_amount(inst[i])],
            [i \in S |-> inst[i].quantity], QtyUnit),
     total_margin_amount |->
        SumFn(S, [i \in S |-> base_total_price(inst[i], cat)
                                - total_cost(inst[i])]),
     total_shipping_amount |->
        AddonAmount(S, inst, cat,
                    [i \in S |-> effective_shipping_pct(inst[i])]),
     total_customs_amount |->
        AddonAmount(S, inst, cat,
                    [i \in S |-> effective_customs_pct(inst[i])]),
     total_finances_amount |->
        AddonAmount(S, inst, cat,
                    [i \in S |-> effective_finances_pct(inst[i])]),
     total_installation_amount |->
        AddonAmount(S, inst, cat,
                    [i \in S |-> effective_installation_pct(inst[i])])]

ItemsOfSheet(d, sh) == UNION {ItemsOf(d, s) : s \in SectionsOf(d, sh)}

\* CostingSection._compute_subtotals on a section loaded from d: its
\* line_items are loaded without caches
_compute_subtotals(d, sec) ==
    SectionSubtotals(ItemsOf(d, sec),
                     [i \in ItemsOf(d, sec) |-> Loaded(d, i)], d.rates)

\* CostingSheet._compute_totals on a sheet loaded from d: sections and
\* line items are queried afresh, so every item takes the uncached branch
_compute_totals(d, sh) ==
    SheetTotals(ItemsOfSheet(d, sh),
                [i \in ItemsOfSheet(d, sh) |-> Loaded(d, i)], d.rates)

\* the uncached pass raises when an item's exchange rate division does
_compute_totals_raises(d, sh) ==
    \E i \in ItemsOfSheet(d, sh) : exchange_rate_raises(Loaded(d, i), d.rates)

_compute_subtotals_raises(d, sec) ==
    \E i \in ItemsOf(d, sec) : exchange_rate_raises(Loaded(d, i), d.rates)

(* ------------------------------------------------------------------ *)
(* State                                                                *)
(* ------------------------------------------------------------------ *)
VARIABLES
    rates,      \* ExchangeRate table
    sheets,     \* CostingSheet table
    sections,   \* CostingSection table
    items,      \* CostingLineItem table
    obj,        \* a CostingLineItem instance held in memory
    resp,       \* what the last operation returned to its caller
    edits,      \* number of mutating operations so far
    req,        \* the request the last handler answered
    running,    \* a totals pass in progress: its locals and position
    notifications   \* Notification table: one entry per notify_users call

vars == <<rates, sheets, sections, items, obj, resp, edits, req, running,
         notifications>>

db == [rates |-> rates, sheets |-> sheets, sections |-> sections,
       items |-> items]

(* ------------------------------------------------------------------ *)
(* Input domains                                                        *)
(* ------------------------------------------------------------------ *)
Currencies == {"SAR", "USD", "EUR"}

Pct(n) == n * PctUnit
Money(n) == n * CostUnit
Qty(n) == n * QtyUnit
Rate(n, millionths) == n * Micro + millionths

\* 1, 3.75 and the unusable 0
RateValues == {0, Rate(1, 0), Rate(3, 750000)}

\* every catalog over the three currencies
Catalogs ==
    UNION {[S -> RateValues] : S \in SUBSET Currencies}

StdCatalog == ("SAR" :> Rate(3, 750000)) @@ ("USD" :> Rate(1, 0))

\* the sheet of the worked example: margin 40, discount 10, shipping 5,
\* customs 2, finance 0, installation 0.  updated_at (auto_now) is the
\* time of the row's last save, counted in mutating operations
ScenarioSheet ==
    [margin |-> Pct(40), discount_rate |-> Pct(10),
     shipping_rate |-> Pct(5), customs_rate |-> Pct(2),
     finances_rate |-> 0, installation_rate |-> 0,
     output_currency |-> "SAR", status |-> "draft", updated_at |-> 0]

OtherSheet ==
    [margin |-> Pct(100), discount_rate |-> 0,
     shipping_rate |-> 0, customs_rate |-> 0,
     finances_rate |-> Pct(3), installation_rate |-> Pct(7),
     output_currency |-> "USD", status |-> "draft", updated_at |-> 0]

Optional(S) == {None} \cup {Some(v) : v \in S}

\* 1000.00, and 12.345 whose products land on rounding ties
CostValues == {Money(1000), Money(12) + 345}
QtyValues == {0, Qty(2), Qty(1) + 50}

OverrideValues ==
    [margin |-> Optional({0, Pct(40), Pct(100), Pct(150)}),
     discount_pct |-> Optional({0, Pct(10)}),
     shipping_pct |-> Optional({0, Pct(5)}),
     customs_pct |-> Optional({Pct(2)}),
     finances_pct |-> Optional({0}),
     installation_pct |-> Optional({0})]

ItemRow(sec, qty, cur, cost, ov) ==
    [section |-> sec, quantity |-> qty, supplier_currency |-> cur,
     base_unit_cost |-> cost,
     discount_pct |-> ov.discount_pct, shipping_pct |-> ov.shipping_pct,
     customs_pct |-> ov.customs_pct, finances_pct |-> ov.finances_pct,
     installation_pct |-> ov.installation_pct, margin |-> ov.margin]

Overrides == {ov \in [PctFields -> UNION {OverrideValues[f] : f \in PctFields}] :
                \A f \in PctFields : ov[f] \in OverrideValues[f]}
NoOverrides == [f \in PctFields |-> None]

NoResp == [kind |-> "none"]
NoReq == [op |-> "none"]
Idle == [at |-> "idle"]

(* ------------------------------------------------------------------ *)
(* Reading a property of the in-memory instance                         *)
(* ------------------------------------------------------------------ *)
ReadProperty(p) ==
    /\ obj' = AfterRead(obj, rates, p)
    /\ resp' = IF ReadRaises(obj, rates, p)
               THEN [kind |-> "raised", prop |-> p]
               ELSE [kind |-> "read", prop |-> p,
                     value |-> Prop(obj, rates, p)]
    /\ UNCHANGED <<rates, sheets, sections, items, edits, req, running,
                 notifications>>

\* price the in-memory instance: read its figures as the item loop does
PriceItem ==
    /\ obj' = AfterReads(obj, rates, ReadOrder)
    /\ resp' = IF AnyReadRaises(obj, rates, ReadOrder)
               THEN [kind |-> "raised", prop |-> "final_total_price"]
               ELSE [kind |-> "priced",
                     value |-> final_total_price(obj, rates)]
    /\ UNCHANGED <<rates, sheets, sections, items, edits, req, running,
                 notifications>>

\* views compute the SAR -> output currency factor from the rates they
\* loaded and hand it to the template
ConversionRate ==
    /\ resp' = [kind |-> "conversion",
                output_currency |-> sheet(obj).output_currency,
                conversion_rate |->
                    _conversion_rate(sheet(obj).output_currency, rates)]
    /\ UNCHANGED <<rates, sheets, sections, items, obj, edits, req, running,
                 notifications>>

(* ------------------------------------------------------------------ *)
(* SpecPricing: the pricing functions over bounded inputs               *)
(* ------------------------------------------------------------------ *)
\* cascade family: every combination of overrides, both sheets
InitCascade ==
    /\ rates = StdCatalog
    /\ \E sh \in {ScenarioSheet, OtherSheet} : sheets = (1 :> sh)
    /\ sections = (1 :> [costing_sheet |-> 1])
    /\ \E ov \in Overrides, cost \in CostValues, qty \in QtyValues,
          cur \in {"SAR", "USD"} :
            items = (1 :> ItemRow(1, qty, cur, cost, ov))
    /\ obj = Primed(db, 1, rates, sheets[1])

\* rate family: every catalog, supplier and output currency, with the
\* rates preloaded into the instance or looked up per item
InitRates ==
    /\ rates \in Catalogs
    /\ \E out \in Currencies :
            sheets = (1 :> [ScenarioSheet EXCEPT !.output_currency = out])
    /\ sections = (1 :> [costing_sheet |-> 1])
    /\ \E cost \in CostValues, cur \in Currencies :
            items = (1 :> ItemRow(1, Qty(2), cur, cost, NoOverrides))
    /\ \/ obj = Primed(db, 1, rates, sheets[1])
       \/ obj = Loaded(db, 1)

InitPricing ==
    /\ InitCascade \/ InitRates
    /\ resp = NoResp
    /\ edits = 0
    /\ req = NoReq
    /\ running = Idle
    /\ notifications = <<>>

NextPricing ==
    \/ PriceItem
    \/ ConversionRate

SpecPricing == InitPricing /\ [][NextPricing]_vars

(* ================================================================== *)
(* Claims checked under SpecPricing                                     *)
(* ================================================================== *)
Priced == resp.kind = "priced"
memo == obj._computed

\* the cascade as the specification words it: the override when it is
\* non-null, the sheet default otherwise (in PctUnit; the division by
\* 100 is the denominator FracDen of every use)
CascadePct(f) ==
    IF obj[f] # None THEN obj[f][1] ELSE sheet(obj)[SheetField[f]]

AddonPct ==
    CascadePct("shipping_pct") + CascadePct("customs_pct")
        + CascadePct("finances_pct") + CascadePct("installation_pct")

\* C1: for each of the six percentage fields the effective value is the
\* item's override when it is non-null (0 included) and the sheet's
\* default when it is null
C1_EffectiveIsOverrideElseDefault ==
    \A f \in PctFields : effective(obj, f) = CascadePct(f)

\* sheet margin 40, item margin override 0: effective margin 0, so the
\* priced item's base price is its cost
C1_Witness ==
    /\ Priced
    /\ obj.margin = Some(0)
    /\ sheet(obj).margin = Pct(40)
    /\ effective_margin(obj) = 0
    /\ IsNone(obj.discount_pct)
    /\ effective_discount_pct(obj) = Pct(10)
    /\ memo["base_unit_price"] = memo["unit_cost_sar"]
    /\ memo["unit_cost_sar"] > 0

\* the steps of the pipeline other than the margin markup, each rounded
\* to 2 decimals and fed from the rounded result of the step before
PipelineStepsButMarkup ==
    /\ memo["discount_amount"] =
         Quantize(obj.base_unit_cost, CascadePct("discount_pct"),
                  CostPerCent * FracDen)
    /\ memo["unit_cost"] =
         Quantize(obj.base_unit_cost - CostPerCent * memo["discount_amount"],
                  1, CostPerCent)
    /\ memo["total_cost"] =
         Quantize(memo["unit_cost"], obj.quantity, QtyUnit)
    /\ memo["unit_cost_sar"] =
         Quantize(memo["unit_cost"], memo["exchange_rate_to_sar"], Micro)
    /\ memo["base_total_price"] =
         Quantize(memo["base_unit_price"], obj.quantity, QtyUnit)
    /\ memo["final_unit_price"] =
         QuantizeSum(memo["base_unit_price"], memo["unit_cost_sar"],
                     AddonPct, FracDen)
    /\ memo["final_total_price"] =
         Quantize(memo["final_unit_price"], obj.quantity, QtyUnit)

\* unit_cost_in_base / (1 - margin), rounded to 2 decimals; no value
\* when the margin is exactly 100%
IsMarkedUp(price, cost, marginPct) ==
    LET den == FracDen - marginPct
    IN /\ den # 0
       /\ price = IF den > 0 THEN Quantize(cost, FracDen, den)
                  ELSE Quantize(-cost, FracDen, -den)

\* C3 as stated: for every line item the figures follow the steps in
\* order, with base_unit_price = unit_cost_in_base / (1 - eff(margin))
C3_Original_MarkupForEveryItem ==
    Priced =>
        /\ PipelineStepsButMarkup
        /\ IsMarkedUp(memo["base_unit_price"], memo["unit_cost_sar"],
                      CascadePct("margin"))

\* C3 amended: the figures follow the steps in order, each rounded to 2
\* decimals before feeding the next, with base_unit_price =
\* unit_cost_in_base / (1 - eff(margin)) when eff(margin) < 1 and
\* base_unit_price = unit_cost_in_base when eff(margin) >= 1
C3_PipelineSteps ==
    Priced =>
        /\ PipelineStepsButMarkup
        /\ IF CascadePct("margin") >= FracDen
           THEN memo["base_unit_price"] = memo["unit_cost_sar"]
           ELSE IsMarkedUp(memo["base_unit_price"], memo["unit_cost_sar"],
                           CascadePct("margin"))

\* a priced item in a foreign currency with discount, margin below 100%
\* and add-ons, whose figures all differ step to step
C3_Witness ==
    /\ Priced
    /\ obj.supplier_currency = "USD"
    /\ obj.base_unit_cost = Money(12) + 345
    /\ obj.quantity = Qty(1) + 50
    /\ CascadePct("margin") = Pct(40)
    /\ CascadePct("discount_pct") = Pct(10)
    /\ AddonPct = Pct(7)
    /\ memo["exchange_rate_to_sar"] = Rate(3, 750000)
    /\ memo["discount_amount"] > 0
    /\ memo["unit_cost_sar"] > memo["unit_cost"]
    /\ memo["base_unit_price"] > memo["unit_cost_sar"]
    /\ memo["final_unit_price"] > memo["base_unit_price"]
    /\ memo["final_total_price"] > memo["final_unit_price"]

\* the inputs of the worked example
IsScenario ==
    /\ obj.base_unit_cost = Money(1000)
    /\ obj.supplier_currency = "SAR"
    /\ obj.quantity = Qty(2)
    /\ CascadePct("discount_pct") = Pct(10)
    /\ CascadePct("margin") = Pct(40)
    /\ CascadePct("shipping_pct") = Pct(5)
    /\ CascadePct("customs_pct") = Pct(2)
    /\ CascadePct("finances_pct") = 0
    /\ CascadePct("installation_pct") = 0

\* C4: base_unit_cost 1000 SAR, quantity 2, discount 10%, margin 40%,
\* shipping 5%, customs 2%, finance 0%, installation 0% give
\* discount_amount 100.00, unit_cost 900.00, unit_cost_in_base 900.00,
\* base_unit_price 1500.00, add-on fraction 0.07, final_unit_price
\* 1563.00 and final_total_price 3126.00 (figures in cents)
C4_WorkedExample ==
    (Priced /\ IsScenario) =>
        /\ memo["discount_amount"] = 10000
        /\ memo["unit_cost"] = 90000
        /\ memo["unit_cost_sar"] = 90000
        /\ memo["base_unit_price"] = 150000
        /\ total_addon_pct(obj) = Pct(7)
        /\ memo["final_unit_price"] = 156300
        /\ memo["final_total_price"] = 312600

C4_Witness ==
    /\ Priced
    /\ IsScenario
    /\ memo["final_total_price"] = 312600

\* C5: whenever the effective margin is 100% or more, base_unit_price
\* equals unit_cost_in_base exactly and is not negative
C5_MarginGuard ==
    (Priced /\ CascadePct("margin") >= FracDen) =>
        /\ memo["base_unit_price"] = memo["unit_cost_sar"]
        /\ memo["base_unit_price"] >= 0

C5_Witness ==
    /\ Priced
    /\ CascadePct("margin") = Pct(150)
    /\ obj.supplier_currency = "USD"
    /\ memo["exchange_rate_to_sar"] = Rate(3, 750000)
    /\ memo["unit_cost_sar"] > memo["unit_cost"]
    /\ memo["base_unit_price"] = memo["unit_cost_sar"]

\* the catalog an instance takes its rates from: the preloaded snapshot
\* when there is one, the ExchangeRate table otherwise
CatalogOf(o) == IF ~IsNone(o._rates_cache) THEN Val(o._rates_cache) ELSE rates

IsConversion == resp.kind = "conversion"

\* C6 as stated: every conversion factor is rate(to) / rate(from) rounded
\* to 6 decimals, for supplier currency -> SAR inside the pipeline and
\* for SAR -> output currency in the display factor (currencies that
\* differ and are both in the catalog with usable rates)
C6_FactorIsToOverFrom ==
    /\ (/\ Priced
        /\ obj.supplier_currency # "SAR"
        /\ ~exchange_rate_is_fallback(obj, rates))
       => memo["exchange_rate_to_sar"] =
            Quantize(CatalogOf(obj)["SAR"], Micro,
                     CatalogOf(obj)[obj.supplier_currency])
    /\ (/\ IsConversion
        /\ resp.output_currency # "SAR"
        /\ ~conversion_is_fallback(resp.output_currency, rates))
       => resp.conversion_rate =
            Quantize(rates[resp.output_currency], Micro, rates["SAR"])

\* C7: when source and target currency are both SAR the factor is
\* exactly 1 and amounts are unchanged, whatever the catalog contains
C7_SarToSarIsIdentity ==
    /\ (Priced /\ obj.supplier_currency = "SAR")
       => /\ memo["exchange_rate_to_sar"] = Micro
          /\ memo["unit_cost_sar"] = memo["unit_cost"]
    /\ (IsConversion /\ resp.output_currency = "SAR")
       => /\ resp.conversion_rate = Micro
          /\ \A k \in DOMAIN memo \ {"exchange_rate_to_sar"} :
                mul(memo[k], resp.conversion_rate) = memo[k]

\* a SAR item priced and displayed in SAR while the catalog's SAR entry
\* is 3.75, not 1
C7_Witness ==
    /\ IsConversion
    /\ resp.output_currency = "SAR"
    /\ obj.supplier_currency = "SAR"
    /\ "SAR" \in DOMAIN CatalogOf(obj)
    /\ CatalogOf(obj)["SAR"] = Rate(3, 750000)
    /\ "final_total_price" \in DOMAIN memo
    /\ memo["unit_cost_sar"] = memo["unit_cost"]
    /\ memo["unit_cost"] > 0

\* a currency absent from the catalog c
Absent(cur, c) == cur \notin DOMAIN c

PricingDone == resp.kind \in {"priced", "raised"}

\* C8: if the supplier currency, the output currency or SAR is absent
\* from the catalog the factor is 1 and pricing of the item and of the
\* sheet completes with a total
C8_MissingRateFallsBack ==
    /\ (/\ PricingDone
        /\ \/ Absent(obj.supplier_currency, CatalogOf(obj))
           \/ Absent("SAR", CatalogOf(obj)))
       => /\ Priced
          /\ memo["exchange_rate_to_sar"] = Micro
          /\ resp.value = memo["final_total_price"]
    /\ (Absent(items[1].supplier_currency, rates) \/ Absent("SAR", rates))
       => /\ ~_compute_totals_raises(db, 1)
          /\ _compute_totals(db, 1).grand_total
               = final_total_price(Primed(db, 1, rates, sheets[1]), rates)
    /\ (/\ IsConversion
        /\ \/ Absent(resp.output_currency, rates)
           \/ Absent("SAR", rates))
       => resp.conversion_rate = Micro

\* a EUR item priced against a catalog that has SAR and USD but no EUR,
\* through the per-item lookup
C8_Witness ==
    /\ Priced
    /\ obj.supplier_currency = "EUR"
    /\ IsNone(obj._rates_cache)
    /\ DOMAIN rates = {"SAR", "USD"}
    /\ rates["SAR"] = Rate(3, 750000)
    /\ memo["exchange_rate_to_sar"] = Micro
    /\ memo["final_total_price"] > 0
    /\ _compute_totals(db, 1).grand_total = memo["final_total_price"]

\* C9 as stated: whenever the missing-rate fallback is used the caller
\* can tell the result apart from a genuine factor of 1; the functions
\* return the factor alone, so the factor itself has to differ
C9_FallbackIsFlagged ==
    /\ (Priced /\ exchange_rate_is_fallback(obj, rates))
       => memo["exchange_rate_to_sar"] # Micro
    /\ (IsConversion /\ conversion_is_fallback(resp.output_currency, rates))
       => resp.conversion_rate # Micro

(* ================================================================== *)
(* SpecInstance: one CostingLineItem instance that is read and edited  *)
(* in memory.  Python attribute assignment and the two cache setters   *)
(* leave _computed as it is.                                           *)
(* ================================================================== *)
\* bound on the number of mutating operations in a behaviour
MaxEdits == 2

\* item.<field> = value
SetItemField ==
    /\ edits < MaxEdits
    /\ \E f \in PctFields \cup {"base_unit_cost", "quantity",
                                "supplier_currency"} :
         \E v \in (CASE f \in PctFields -> OverrideValues[f]
                     [] f = "base_unit_cost" -> CostValues \cup {Money(2000)}
                     [] f = "quantity" -> QtyValues
                     [] f = "supplier_currency" -> {"SAR", "USD"}) :
            /\ v # obj[f]
            /\ obj' = [obj EXCEPT ![f] = v]
    /\ resp' = [kind |-> "set"]
    /\ edits' = edits + 1
    /\ UNCHANGED <<rates, sheets, sections, items, req, running,
                 notifications>>

\* sheet.<default> = value on the sheet object the instance resolves its
\* defaults through
SetSheetDefault ==
    /\ edits < MaxEdits
    /\ \E f \in {"margin", "discount_rate", "shipping_rate"},
          v \in {0, Pct(25)} :
            /\ v # sheet(obj)[f]
            /\ obj' = IF ~IsNone(obj._sheet_cache)
                      THEN [obj EXCEPT !._sheet_cache =
                                Some([Val(obj._sheet_cache) EXCEPT ![f] = v])]
                      ELSE [obj EXCEPT !.costing_sheet[f] = v]
    /\ resp' = [kind |-> "set"]
    /\ edits' = edits + 1
    /\ UNCHANGED <<rates, sheets, sections, items, req, running,
                 notifications>>

\* item.set_exchange_rates_cache(rates_dict) with another snapshot
ReplaceRatesSnapshot ==
    /\ edits < MaxEdits
    /\ \E cat \in {StdCatalog, [StdCatalog EXCEPT !["USD"] = Rate(3, 750000)],
                   ("SAR" :> Rate(1, 0))} :
            /\ Some(cat) # obj._rates_cache
            /\ obj' = set_exchange_rates_cache(obj, cat)
    /\ resp' = [kind |-> "set"]
    /\ edits' = edits + 1
    /\ UNCHANGED <<rates, sheets, sections, items, req, running,
                 notifications>>

\* item.set_sheet_cache(sheet) with another sheet object
ReplaceSheetSnapshot ==
    /\ edits < MaxEdits
    /\ \E sh \in {ScenarioSheet, OtherSheet} :
            /\ Some(sh) # obj._sheet_cache
            /\ obj' = set_sheet_cache(obj, sh)
    /\ resp' = [kind |-> "set"]
    /\ edits' = edits + 1
    /\ UNCHANGED <<rates, sheets, sections, items, req, running,
                 notifications>>

ReadAnyProperty == \E p \in Props : ReadProperty(p)

\* the worked example's item, in SAR or in USD, prepared as the views
\* prepare it
InitInstance ==
    /\ rates = StdCatalog
    /\ sheets = (1 :> ScenarioSheet)
    /\ sections = (1 :> [costing_sheet |-> 1])
    /\ \E cur \in {"SAR", "USD"} :
            items = (1 :> ItemRow(1, Qty(2), cur, Money(1000), NoOverrides))
    /\ obj = Primed(db, 1, rates, sheets[1])
    /\ resp = NoResp
    /\ edits = 0
    /\ req = NoReq
    /\ running = Idle
    /\ notifications = <<>>

NextInstance ==
    \/ ReadAnyProperty
    \/ SetItemField
    \/ SetSheetDefault
    \/ ReplaceRatesSnapshot
    \/ ReplaceSheetSnapshot

SpecInstance == InitInstance /\ [][NextInstance]_vars

\* the instance with nothing memoized: the pipeline on its current inputs
Fresh(o) == [o EXCEPT !._computed = EmptyMemo]

\* C2 as stated: whatever reads and edits came before, a derived figure
\* read from the instance equals the pipeline applied to the instance's
\* current inputs
C2_MemoNeverStale ==
    resp.kind = "read" =>
        resp.value = Prop(Fresh(obj), CatalogOf(obj), resp.prop)

(* ================================================================== *)
(* Spec: the stored sheets and the request handlers of costing/views.py *)
(* Every handler loads fresh instances from the tables, so nothing     *)
(* memoized survives from one request to the next.                     *)
(* ================================================================== *)
\* a POSTed value: blank, text that Decimal() rejects, or a decimal
Blank == [kind |-> "empty"]
Garbage == [kind |-> "invalid"]
Dec(n) == [kind |-> "decimal", v |-> n]

Ok == [kind |-> "ok"]
BadRequest == [kind |-> "error", status |-> 400]

\* request.POST of an inline edit, or the pk a view is asked for
Request(op, pk, field, value) ==
    [op |-> op, pk |-> pk, field |-> field, value |-> value]
ViewRequest(op, pk) == [op |-> op, pk |-> pk]

Without(f, k) == [x \in (DOMAIN f) \ {k} |-> f[x]]

NextPk(f) == IF DOMAIN f = {} THEN 1
             ELSE 1 + CHOOSE m \in DOMAIN f : \A x \in DOMAIN f : x <= m

\* ajax_update_sheet_params
ajax_update_sheet_params ==
    /\ edits < MaxEdits
    /\ \E pk \in DOMAIN sheets :
       \E field \in {"margin", "shipping_rate", "output_currency",
                     "status"} :
       \E value \in (IF field = "output_currency" THEN {"USD", ""}
                     ELSE {Garbage, Dec(Pct(12) + 345)}) :
        /\ req' = Request("ajax_update_sheet_params", pk, field, value)
        /\ IF field = "status"
          THEN resp' = BadRequest /\ UNCHANGED <<sheets, edits>>
          ELSE IF field = "output_currency"
          THEN /\ sheets' = [sheets EXCEPT ![pk].output_currency = value,
                                        ![pk].updated_at = edits + 1]
               /\ resp' = Ok
               /\ edits' = edits + 1
          ELSE IF value.kind # "decimal"
          THEN resp' = BadRequest /\ UNCHANGED <<sheets, edits>>
          ELSE /\ sheets' = [sheets EXCEPT ![pk][field] = StoreDecimal(value.v),
                                        ![pk].updated_at = edits + 1]
               /\ resp' = Ok
               /\ edits' = edits + 1
    /\ UNCHANGED <<rates, sections, items, obj, running,
                 notifications>>

\* ajax_update_exchange_rate (rate_to_usd keeps six decimals, the
\* resolution rates are held in)
ajax_update_exchange_rate ==
    /\ edits < MaxEdits
    /\ \E pk \in DOMAIN rates :
       \E value \in {Garbage, Dec(0), Dec(Rate(4, 0))} :
        /\ req' = Request("ajax_update_exchange_rate", pk, "rate_to_usd",
                          value)
        /\ IF value.kind # "decimal"
          THEN resp' = BadRequest /\ UNCHANGED <<rates, edits>>
          ELSE /\ rates' = [rates EXCEPT ![pk] = value.v]
               /\ resp' = Ok
               /\ edits' = edits + 1
    /\ UNCHANGED <<sheets, sections, items, obj, running,
                 notifications>>

\* ExchangeRateDeleteView
ExchangeRateDeleteView ==
    /\ edits < MaxEdits
    /\ \E pk \in DOMAIN rates :
          /\ rates' = Without(rates, pk)
          /\ req' = ViewRequest("ExchangeRateDeleteView", pk)
    /\ resp' = Ok
    /\ edits' = edits + 1
    /\ UNCHANGED <<sheets, sections, items, obj, running,
                 notifications>>

\* an item margin edit that also clears the item's discount override
ajax_update_item_margin_ClearsDiscount ==
    /\ edits < MaxEdits
    /\ \E pk \in DOMAIN items :
       \E value \in {Blank, Garbage, Dec(Pct(150))} :
        /\ req' = Request("ajax_update_item_margin", pk, "margin", value)
        /\ IF value.kind = "invalid"
          THEN resp' = BadRequest /\ UNCHANGED <<items, edits>>
          ELSE /\ items' = [items EXCEPT ![pk].margin =
                    IF value.kind = "empty" THEN None
                    ELSE Some(StoreDecimal(value.v)),
                    ![pk].discount_pct = Some(0)]
               /\ resp' = Ok
               /\ edits' = edits + 1
    /\ UNCHANGED <<rates, sheets, sections, obj, running,
                 notifications>>

\* ajax_update_item_margin
ajax_update_item_margin ==
    /\ edits < MaxEdits
    /\ \E pk \in DOMAIN items :
       \E value \in {Blank, Garbage, Dec(Pct(150))} :
        /\ req' = Request("ajax_update_item_margin", pk, "margin", value)
        /\ IF value.kind = "invalid"
          THEN resp' = BadRequest /\ UNCHANGED <<items, edits>>
          ELSE /\ items' = [items EXCEPT ![pk].margin =
                    IF value.kind = "empty" THEN None
                    ELSE Some(StoreDecimal(value.v))]
               /\ resp' = Ok
               /\ edits' = edits + 1
    /\ UNCHANGED <<rates, sheets, sections, obj, running,
                 notifications>>

\* the six figures ajax_update_item_field returns, in the order it reads
\* them
ComputedKeys ==
    <<"unit_cost", "total_cost", "base_unit_price", "base_total_price",
      "final_unit_price", "final_total_price">>

\* ajax_update_item_field: the instance keeps the value as assigned, the
\* row keeps what the column stores; the figures are read from the
\* instance after both caches are set
ajax_update_item_field ==
    /\ edits < MaxEdits
    /\ \E pk \in DOMAIN items :
       \E field \in {"base_unit_cost", "discount_pct", "margin",
                     "supplier_currency", "quantity"} :
       \E value \in (IF field = "supplier_currency"
                     THEN {"", "XXX"}
                     ELSE IF field = "base_unit_cost"
                     THEN {Blank, Garbage, Dec(Money(12) + 345)}
                     ELSE IF field = "margin"
                     THEN {Blank, Dec(Pct(10))}
                     ELSE {Blank}) :
        /\ req' = Request("ajax_update_item_field", pk, field, value)
        /\ IF field = "quantity"
          THEN resp' = BadRequest /\ UNCHANGED <<items, obj, edits>>
          ELSE IF field # "supplier_currency" /\ value.kind = "invalid"
          THEN resp' = BadRequest /\ UNCHANGED <<items, obj, edits>>
          ELSE
            LET assigned ==
                    IF field = "supplier_currency"
                    THEN (IF value # "" THEN value ELSE "SAR")
                    ELSE IF field = "margin" /\ value.kind = "empty"
                    THEN None
                    ELSE IF field = "base_unit_cost"
                    THEN (IF value.kind = "empty" THEN 0 ELSE value.v)
                    ELSE Some(IF value.kind = "empty" THEN 0 ELSE value.v)
                stored ==
                    IF field = "supplier_currency" THEN assigned
                    ELSE IF field = "base_unit_cost"
                    THEN StoreDecimal(assigned)
                    ELSE StoreOptional(assigned)
                item == [Loaded(db, pk) EXCEPT ![field] = assigned]
                primed == set_sheet_cache(
                              set_exchange_rates_cache(item, rates),
                              sheets[SheetOfItem(db, pk)])
                after == AfterReads(primed, rates, ComputedKeys)
            IN /\ items' = [items EXCEPT ![pk][field] = stored]
               /\ obj' = after
               /\ resp' = [kind |-> "computed", pk |-> pk,
                           computed |->
                              [k \in {ComputedKeys[n] : n \in 1..6} |->
                                  after._computed[k]]]
               /\ edits' = edits + 1
    /\ UNCHANGED <<rates, sheets, sections, running,
                 notifications>>

\* LineItemUpdateView: the form saves cleaned two-decimal values; its
\* quantity field has no minimum
LineItemUpdateView ==
    /\ edits < MaxEdits
    /\ \E pk \in DOMAIN items, qty \in {0, Qty(3), -Qty(1)} :
          /\ items' = [items EXCEPT ![pk].quantity = qty]
          /\ req' = Request("LineItemUpdateView", pk, "quantity", Dec(qty))
    /\ resp' = Ok
    /\ edits' = edits + 1
    /\ UNCHANGED <<rates, sheets, sections, obj, running,
                 notifications>>

\* LineItemCreateView
LineItemCreateView ==
    /\ edits < MaxEdits
    /\ \E section_pk \in DOMAIN sections :
          /\ items' = items @@
                (NextPk(items) :>
                    ItemRow(section_pk, Qty(1), "USD", Money(200), NoOverrides))
          /\ req' = ViewRequest("LineItemCreateView", section_pk)
    /\ resp' = Ok
    /\ edits' = edits + 1
    /\ UNCHANGED <<rates, sheets, sections, obj, running,
                 notifications>>

\* LineItemDeleteView
LineItemDeleteView ==
    /\ edits < MaxEdits
    /\ \E pk \in DOMAIN items :
          /\ items' = Without(items, pk)
          /\ req' = ViewRequest("LineItemDeleteView", pk)
    /\ resp' = Ok
    /\ edits' = edits + 1
    /\ UNCHANGED <<rates, sheets, sections, obj, running,
                 notifications>>

\* a section delete that leaves the section's items behind
SectionDeleteView_KeepsItems ==
    /\ edits < MaxEdits
    /\ \E pk \in DOMAIN sections :
          /\ sections' = Without(sections, pk)
          /\ items' = items
          /\ req' = ViewRequest("SectionDeleteView", pk)
    /\ resp' = Ok
    /\ edits' = edits + 1
    /\ UNCHANGED <<rates, sheets, obj, running,
                 notifications>>

\* SectionDeleteView: on_delete=CASCADE removes the section's items
SectionDeleteView ==
    /\ edits < MaxEdits
    /\ \E pk \in DOMAIN sections :
          /\ sections' = Without(sections, pk)
          /\ items' = [i \in (DOMAIN items) \ ItemsOf(db, pk) |-> items[i]]
          /\ req' = ViewRequest("SectionDeleteView", pk)
    /\ resp' = Ok
    /\ edits' = edits + 1
    /\ UNCHANGED <<rates, sheets, obj, running,
                 notifications>>

\* CostingDeleteView: on_delete=CASCADE removes the sheet's sections and
\* through them their items
CostingDeleteView ==
    /\ edits < MaxEdits
    /\ \E pk \in DOMAIN sheets :
          /\ sheets' = Without(sheets, pk)
          /\ sections' = [s \in (DOMAIN sections) \ SectionsOf(db, pk) |->
                            sections[s]]
          /\ items' = [i \in (DOMAIN items) \ ItemsOfSheet(db, pk) |->
                         items[i]]
          /\ req' = ViewRequest("CostingDeleteView", pk)
    /\ resp' = Ok
    /\ edits' = edits + 1
    /\ UNCHANGED <<rates, obj, running,
                 notifications>>

\* costing_import_excel with a workbook of one item row and no section
\* row: a section is created for it, the quantity is the cell's decimal
\* (1 when the cell is blank), cost and currency take the field defaults
costing_import_excel ==
    /\ edits < MaxEdits
    /\ \E pk \in DOMAIN sheets, qty_val \in {Blank, Dec(-Qty(2))} :
          /\ sections' = sections @@
                (NextPk(sections) :> [costing_sheet |-> pk])
          /\ items' = items @@
                (NextPk(items) :>
                    ItemRow(NextPk(sections),
                            IF qty_val.kind = "decimal" THEN qty_val.v
                            ELSE Qty(1),
                            "SAR", 0, NoOverrides))
          /\ req' = Request("costing_import_excel", pk, "quantity", qty_val)
    /\ resp' = Ok
    /\ edits' = edits + 1
    /\ UNCHANGED <<rates, sheets, obj, running,
                 notifications>>

\* CostingDetailView.get_context_data: every item is given both caches,
\* one pass fills section._subtotals and sheet._totals
CostingDetailView ==
    /\ \E pk \in DOMAIN sheets :
        /\ req' = ViewRequest("CostingDetailView", pk)
        /\ resp' = [kind |-> "detail", pk |-> pk,
                   subtotals |->
                      [s \in SectionsOf(db, pk) |->
                          SectionSubtotals(ItemsOf(db, s),
                              [i \in ItemsOf(db, s) |->
                                  Primed(db, i, rates, sheets[pk])],
                              rates)],
                   totals |->
                      SheetTotals(ItemsOfSheet(db, pk),
                          [i \in ItemsOfSheet(db, pk) |->
                              Primed(db, i, rates, sheets[pk])],
                          rates),
                   conversion_rate |->
                      _conversion_rate(sheets[pk].output_currency, rates)]
    /\ UNCHANGED <<rates, sheets, sections, items, obj, edits, running,
                 notifications>>

\* ajax_section_items: the section's items with both caches set
ajax_section_items ==
    /\ \E pk \in DOMAIN sections :
        /\ req' = ViewRequest("ajax_section_items", pk)
        /\ resp' = [kind |-> "items", pk |-> pk,
                   final_total_price |->
                      [i \in ItemsOf(db, pk) |->
                          final_total_price(
                              Primed(db, i, rates,
                                     sheets[sections[pk].costing_sheet]),
                              rates)],
                   conversion_rate |->
                      _conversion_rate(
                          sheets[sections[pk].costing_sheet].output_currency,
                          rates)]
    /\ UNCHANGED <<rates, sheets, sections, items, obj, edits, running,
                 notifications>>

\* costing_export_pdf: item rows come from the prefetched instances that
\* were given caches, sheet.grand_total from a pass over freshly queried
\* ones
costing_export_pdf ==
    /\ \E pk \in DOMAIN sheets :
        /\ req' = ViewRequest("costing_export_pdf", pk)
        /\ resp' = IF _compute_totals_raises(db, pk)
                  THEN [kind |-> "raised", pk |-> pk]
                  ELSE [kind |-> "pdf", pk |-> pk,
                        grand_total |-> _compute_totals(db, pk).grand_total,
                        final_total_price |->
                           [i \in ItemsOfSheet(db, pk) |->
                               final_total_price(
                                   Primed(db, i, rates, sheets[pk]), rates)]]
    /\ UNCHANGED <<rates, sheets, sections, items, obj, edits, running,
                 notifications>>

\* costing_export_excel: an item row reads item.discount, an attribute
\* the model does not have, so only a sheet without items is exported
costing_export_excel ==
    /\ \E pk \in DOMAIN sheets :
        /\ req' = ViewRequest("costing_export_excel", pk)
        /\ resp' = IF ItemsOfSheet(db, pk) # {}
                  THEN [kind |-> "raised", pk |-> pk]
                  ELSE [kind |-> "excel", pk |-> pk,
                        subtotals |->
                           [s \in SectionsOf(db, pk) |->
                               SectionSubtotals(ItemsOf(db, s),
                                   [i \in ItemsOf(db, s) |->
                                       Primed(db, i, rates, sheets[pk])],
                                   rates).subtotal],
                        grand_total |-> _compute_totals(db, pk).grand_total]
    /\ UNCHANGED <<rates, sheets, sections, items, obj, edits, running,
                 notifications>>

\* two sheets: the worked example's with two sections, and a second one
\* whose item is priced in a currency the catalog lacks
Init ==
    /\ rates = StdCatalog
    /\ sheets = (1 :> ScenarioSheet) @@ (2 :> OtherSheet)
    /\ sections = (1 :> [costing_sheet |-> 1]) @@ (2 :> [costing_sheet |-> 1])
                    @@ (3 :> [costing_sheet |-> 2])
    /\ items = (1 :> ItemRow(1, Qty(2), "SAR", Money(1000), NoOverrides))
                 @@ (2 :> ItemRow(2, Qty(1) + 50, "USD", Money(12) + 350,
                                  [NoOverrides EXCEPT !.margin = Some(Pct(100))]))
                 @@ (3 :> ItemRow(3, Qty(2), "EUR", Money(1000), NoOverrides))
    /\ obj = Loaded(db, 1)
    /\ resp = NoResp
    /\ edits = 0
    /\ req = NoReq
    /\ running = Idle
    /\ notifications = <<>>

Next ==
    \/ ajax_update_sheet_params
    \/ ajax_update_exchange_rate
    \/ ExchangeRateDeleteView
    \/ ajax_update_item_margin
    \/ ajax_update_item_field
    \/ LineItemUpdateView
    \/ LineItemCreateView
    \/ LineItemDeleteView
    \/ SectionDeleteView
    \/ CostingDeleteView
    \/ costing_import_excel
    \/ CostingDetailView
    \/ ajax_section_items
    \/ costing_export_pdf
    \/ costing_export_excel

Spec == Init /\ [][Next]_vars

(* ================================================================== *)
(* Claims checked under Spec                                           *)
(* ================================================================== *)
\* C10: after any edits, a sheet's grand_total is the sum of its
\* sections' subtotals rounded to 2 decimals and each section's subtotal
\* is the sum of its items' final_total_price rounded to 2 decimals, in
\* the figures the detail view installs and in those the model methods
\* compute from the stored rows
C10_TotalsAreSums ==
    /\ resp.kind = "detail" =>
          /\ resp.totals.grand_total =
                Quantize(SumFn(DOMAIN resp.subtotals,
                               [s \in DOMAIN resp.subtotals |->
                                   resp.subtotals[s].subtotal]), 1, 1)
          /\ \A s \in DOMAIN resp.subtotals :
                resp.subtotals[s].subtotal =
                    Quantize(SumFn(ItemsOf(db, s),
                        [i \in ItemsOf(db, s) |->
                            final_total_price(
                                Primed(db, i, rates, sheets[resp.pk]),
                                rates)]), 1, 1)
    /\ \A sh \in DOMAIN sheets :
          ~_compute_totals_raises(db, sh) =>
             /\ _compute_totals(db, sh).grand_total =
                   Quantize(SumFn(SectionsOf(db, sh),
                       [s \in SectionsOf(db, sh) |->
                           _compute_subtotals(db, s).subtotal]), 1, 1)
             /\ \A s \in SectionsOf(db, sh) :
                   _compute_subtotals(db, s).subtotal =
                       Quantize(SumFn(ItemsOf(db, s),
                           [i \in ItemsOf(db, s) |->
                               final_total_price(Loaded(db, i), rates)]),
                           1, 1)

\* the detail view of sheet 1 after two edits, both sections still
\* holding priced items
C10_Witness ==
    /\ resp.kind = "detail"
    /\ resp.pk = 1
    /\ edits = MaxEdits
    /\ \A s \in DOMAIN resp.subtotals : resp.subtotals[s].subtotal > 0
    /\ Cardinality(DOMAIN resp.subtotals) >= 2
    /\ resp.totals.grand_total > resp.subtotals[1].subtotal
    /\ ~_compute_totals_raises(db, 1)
    /\ _compute_totals(db, 1).grand_total = resp.totals.grand_total


\* C11 as stated: the totals the detail view installs on the sheet and
\* the subtotals it installs on each section equal, key for key, what
\* CostingSheet._compute_totals and CostingSection._compute_subtotals
\* compute for the same sheet, items and rates
C11_DetailEqualsModelMethods ==
    resp.kind = "detail" =>
        /\ ~_compute_totals_raises(db, resp.pk)
        /\ resp.totals = _compute_totals(db, resp.pk)
        /\ \A s \in DOMAIN resp.subtotals :
              resp.subtotals[s] = _compute_subtotals(db, s)

\* the four add-on totals with the item field each one reads
AddonTotals ==
    [total_shipping_amount |-> "shipping_pct",
     total_customs_amount |-> "customs_pct",
     total_finances_amount |-> "finances_pct",
     total_installation_amount |-> "installation_pct"]

\* unit_cost_sar * effective(f) * quantity of one item as an exact
\* fraction: whole cents q and a remainder r over FracDen * QtyUnit
ExactAddonTerm(o, cat, f) ==
    SignedMulDivQR(unit_cost_sar(o, cat), effective(o, f) * o.quantity,
                   FracDen * QtyUnit)

\* the exact sum of the items' terms, rounded to cents once
SumRoundedOnce(S, inst, cat, f) ==
    LET q == SumFn(S, [i \in S |-> ExactAddonTerm(inst[i], cat, f).q])
        r == SumFn(S, [i \in S |-> ExactAddonTerm(inst[i], cat, f).r])
    IN RoundHalfEven(q + (r \div (FracDen * QtyUnit)),
                     r % (FracDen * QtyUnit), FracDen * QtyUnit)

\* the sum of the items' terms when each is rounded to cents first
SumOfRoundedTerms(S, inst, cat, f) ==
    SumFn(S, [i \in S |->
                RoundHalfEven(ExactAddonTerm(inst[i], cat, f).q,
                              ExactAddonTerm(inst[i], cat, f).r,
                              FracDen * QtyUnit)])

\* the instances the detail view priced for the sheet it answered
DetailItems == ItemsOfSheet(db, resp.pk)
DetailInst == [i \in DetailItems |-> Primed(db, i, rates, sheets[resp.pk])]

\* C12: each of total shipping, customs, finance and installation is the
\* exact sum over the sheet's items of unit_cost_sar * effective(add-on)
\* * quantity rounded to 2 decimals once after summing, and the total
\* margin amount is the sum of base_total_price - total_cost rounded to 2
\* decimals, both in the totals the detail view installs and in those
\* _compute_totals computes from the stored rows
C12_AccumulatorsRoundedOnce ==
    resp.kind = "detail" =>
        /\ \A k \in DOMAIN AddonTotals :
              resp.totals[k] =
                  SumRoundedOnce(DetailItems, DetailInst, rates, AddonTotals[k])
        /\ resp.totals.total_margin_amount =
              Quantize(SumFn(DetailItems,
                  [i \in DetailItems |->
                      base_total_price(DetailInst[i], rates)
                        - total_cost(DetailInst[i])]), 1, 1)
        /\ ~_compute_totals_raises(db, resp.pk) =>
              /\ \A k \in DOMAIN AddonTotals :
                    _compute_totals(db, resp.pk)[k] =
                        SumRoundedOnce(DetailItems,
                            [i \in DetailItems |-> Loaded(db, i)], rates,
                            AddonTotals[k])
              /\ _compute_totals(db, resp.pk).total_margin_amount =
                    Quantize(SumFn(DetailItems,
                        [i \in DetailItems |->
                            base_total_price(Loaded(db, i), rates)
                              - total_cost(Loaded(db, i))]), 1, 1)

\* a detail view over two items whose shipping terms rounded one by one
\* add up to a different amount than their exact sum rounded once
C12_Witness ==
    /\ resp.kind = "detail"
    /\ Cardinality(DetailItems) >= 2
    /\ resp.totals.total_shipping_amount > 0
    /\ resp.totals.total_margin_amount > 0
    /\ resp.totals.total_shipping_amount #
          SumOfRoundedTerms(DetailItems, DetailInst, rates, "shipping_pct")

(* ================================================================== *)
(* SpecPass: costing_export_pdf taken one query at a time while other  *)
(* requests edit the rate catalog.  The views open no transaction, so  *)
(* every query of a handler sees the rows as they are at that moment.  *)
(* ================================================================== *)
RECURSIVE Ascending(_)
Ascending(S) ==
    IF S = {} THEN <<>>
    ELSE LET x == CHOOSE y \in S : \A z \in S : y <= z
         IN <<x>> \o Ascending(S \ {x})

\* costing_export_pdf up to the point the table is built: the rates are
\* read once into rates_dict and given to the prefetched items
BeginExport ==
    /\ running.at # "pass"
    /\ \E pk \in DOMAIN sheets :
          /\ running' = [at |-> "pass", pk |-> pk, rates_dict |-> rates,
                         todo |-> Ascending(ItemsOfSheet(db, pk)),
                         grand_total |-> 0,
                         used |-> [i \in {} |-> rates]]
          /\ req' = ViewRequest("costing_export_pdf", pk)
    /\ UNCHANGED <<rates, sheets, sections, items, obj, resp, edits,
                 notifications>>

\* one iteration of the loop of _compute_totals that sheet.grand_total
\* runs: the item was queried afresh, so a foreign-currency item looks
\* its rates up in the table as it is now
PassItem ==
    /\ running.at = "pass"
    /\ running.todo # <<>>
    /\ LET i == Head(running.todo)
           item == Loaded(db, i)
       IN IF exchange_rate_raises(item, rates)
          THEN /\ running' = [at |-> "raised", pk |-> running.pk]
               /\ resp' = [kind |-> "raised", pk |-> running.pk]
          ELSE /\ running' =
                    [running EXCEPT
                       !.todo = Tail(@),
                       !.grand_total = @ + final_total_price(item, rates),
                       !.used = IF item.supplier_currency = "SAR" THEN @
                                ELSE @ @@ (i :> rates)]
               /\ UNCHANGED resp
    /\ UNCHANGED <<rates, sheets, sections, items, obj, edits, req,
                 notifications>>

\* the rest of costing_export_pdf: the grand total row, then one row per
\* prefetched item, priced against rates_dict
FinishExport ==
    /\ running.at = "pass"
    /\ running.todo = <<>>
    /\ resp' = [kind |-> "pdf", pk |-> running.pk,
                grand_total |-> Quantize(running.grand_total, 1, 1),
                final_total_price |->
                   [i \in ItemsOfSheet(db, running.pk) |->
                       final_total_price(
                           Primed(db, i, running.rates_dict,
                                  sheets[running.pk]),
                           running.rates_dict)]]
    /\ running' = [running EXCEPT !.at = "done"]
    /\ UNCHANGED <<rates, sheets, sections, items, obj, edits, req,
                 notifications>>

\* sheet 1 holds a second foreign-currency item, as LineItemCreateView
\* adds it
InitPass ==
    /\ rates = StdCatalog
    /\ sheets = (1 :> ScenarioSheet) @@ (2 :> OtherSheet)
    /\ sections = (1 :> [costing_sheet |-> 1]) @@ (2 :> [costing_sheet |-> 1])
                    @@ (3 :> [costing_sheet |-> 2])
    /\ items = (1 :> ItemRow(1, Qty(2), "SAR", Money(1000), NoOverrides))
                 @@ (2 :> ItemRow(2, Qty(1) + 50, "USD", Money(12) + 350,
                                  [NoOverrides EXCEPT !.margin = Some(Pct(100))]))
                 @@ (3 :> ItemRow(3, Qty(2), "EUR", Money(1000), NoOverrides))
                 @@ (4 :> ItemRow(1, Qty(1), "USD", Money(200), NoOverrides))
    /\ obj = Loaded(db, 1)
    /\ resp = NoResp
    /\ edits = 0
    /\ req = NoReq
    /\ running = Idle
    /\ notifications = <<>>

NextPass ==
    \/ BeginExport
    \/ PassItem
    \/ FinishExport
    \/ ajax_update_exchange_rate
    \/ ExchangeRateDeleteView

SpecPass == InitPass /\ [][NextPass]_vars

\* C13 as stated: in one export every item that consults the catalog is
\* priced against the catalog state the export started from, so no two
\* items see different catalogs, and the grand total the export prints
\* is the sum of the item figures it prints
C13_PassSeesOneCatalog ==
    (running.at = "done" /\ resp.kind = "pdf") =>
        /\ \A i \in DOMAIN running.used :
              running.used[i] = running.rates_dict
        /\ resp.grand_total =
              SumFn(DOMAIN resp.final_total_price, resp.final_total_price)

(* ================================================================== *)
(* Claims about the inline-edit endpoints, checked under Spec          *)
(* ================================================================== *)
InlineEdits ==
    {"ajax_update_sheet_params", "ajax_update_exchange_rate",
     "ajax_update_item_margin", "ajax_update_item_field"}

\* the field names each endpoint accepts
AllowedFields ==
    [ajax_update_sheet_params |->
        {"margin", "discount_rate", "shipping_rate", "customs_rate",
         "finances_rate", "installation_rate", "output_currency"},
     ajax_update_exchange_rate |-> {"rate_to_usd"},
     ajax_update_item_margin |-> {"margin"},
     ajax_update_item_field |->
        {"base_unit_cost", "discount_pct", "shipping_pct", "customs_pct",
         "finances_pct", "installation_pct", "margin", "supplier_currency"}]

CurrencyFields == {"output_currency", "supplier_currency"}

IsInlineEdit(r) == r.op \in InlineEdits

\* the submitted value is not a decimal, on a field that takes one; a
\* blank value on one of an item's six override fields asks for null and
\* is not counted
NotADecimal(r) ==
    /\ r.field \notin CurrencyFields
    /\ r.value.kind # "decimal"
    /\ ~(/\ r.value.kind = "empty"
         /\ r.op \in {"ajax_update_item_margin", "ajax_update_item_field"}
         /\ r.field \in PctFields)

Accepted == resp.kind \in {"ok", "computed"}

\* C14 as stated: on every inline-edit endpoint a value that does not
\* parse as a decimal, or a field name outside the allowed set, is
\* answered with an error and no stored row changes
C14_InvalidEditRejected ==
    [][(IsInlineEdit(req') /\
          (req'.field \notin AllowedFields[req'.op] \/ NotADecimal(req')))
        => (resp'.kind = "error" /\ db' = db)]_vars

\* C15 as stated: an inline item-field edit that submits the empty
\* string for any of the six override fields stores null in that field,
\* so the item's effective value is the sheet's default
C15_BlankClearsOverride ==
    (/\ req.op = "ajax_update_item_field"
     /\ req.field \in PctFields
     /\ req.value.kind = "empty") =>
        /\ Accepted
        /\ IsNone(items[req.pk][req.field])
        /\ effective(Loaded(db, req.pk), req.field) =
              sheets[SheetOfItem(db, req.pk)][SheetField[req.field]]

\* the currency codes a request may name
ValidCurrency(c) == c \in Currencies

\* C16 as stated: an edit of supplier_currency or output_currency is
\* accepted only for a valid currency code: any other value is answered
\* with an error, so every stored currency stays a valid code
C16_CurrencyValidated ==
    /\ (/\ IsInlineEdit(req)
        /\ req.field \in CurrencyFields
        /\ ~ValidCurrency(req.value)) => resp.kind = "error"
    /\ \A sh \in DOMAIN sheets : ValidCurrency(sheets[sh].output_currency)
    /\ \A i \in DOMAIN items : ValidCurrency(items[i].supplier_currency)

\* the stored rows differ from the previous ones at most in field r.field
\* of record r.pk of the table the endpoint edits, and in the fields
\* named by also
OnlyFieldChanged(r, also) ==
    /\ rates' = rates
    /\ sections' = sections
    /\ IF r.op = "ajax_update_sheet_params"
       THEN /\ items' = items
            /\ DOMAIN sheets' = DOMAIN sheets
            /\ \A sh \in DOMAIN sheets :
                  /\ sh # r.pk => sheets'[sh] = sheets[sh]
                  /\ DOMAIN sheets'[sh] = DOMAIN sheets[sh]
            /\ \A g \in (DOMAIN sheets[r.pk]) \ ({r.field} \cup also) :
                  sheets'[r.pk][g] = sheets[r.pk][g]
       ELSE /\ sheets' = sheets
            /\ DOMAIN items' = DOMAIN items
            /\ \A i \in DOMAIN items :
                  /\ i # r.pk => items'[i] = items[i]
                  /\ DOMAIN items'[i] = DOMAIN items[i]
            /\ \A g \in (DOMAIN items[r.pk]) \ ({r.field} \cup also) :
                  items'[r.pk][g] = items[r.pk][g]

\* the three endpoints that edit a sheet parameter, an item margin or
\* another item field
FieldEdits ==
    {"ajax_update_sheet_params", "ajax_update_item_margin",
     "ajax_update_item_field"}

\* C17 as stated: a successful inline edit of field F changes only the
\* stored field F of that record, every other field of the record and
\* every other record staying as it was
C17_Original_OnlyTheFieldChanges ==
    [][(req'.op \in FieldEdits /\ resp'.kind \in {"ok", "computed"})
        => OnlyFieldChanged(req', {})]_vars

\* C17: a successful inline edit of field F changes only the stored field
\* F of that record and, when the record is a sheet, its updated_at
\* timestamp; every other field and record stays as it was and the rows
\* keep the same columns, none of them a derived figure
C17_OnlyTheFieldChanges ==
    [][(req'.op \in FieldEdits /\ resp'.kind \in {"ok", "computed"})
        => /\ OnlyFieldChanged(req', {"updated_at"})
           /\ \A i \in DOMAIN items' : (DOMAIN items'[i]) \cap Props = {}
           /\ \A sh \in DOMAIN sheets' :
                 DOMAIN sheets'[sh] = DOMAIN ScenarioSheet]_vars

\* sheet 1 after its margin was edited: the margin holds the stored
\* value, the timestamp moved, the other parameters and all items are as
\* they were created
C17_Witness ==
    /\ req.op = "ajax_update_sheet_params"
    /\ req.pk = 1
    /\ req.field = "margin"
    /\ Accepted
    /\ sheets[1] = [ScenarioSheet EXCEPT !.margin = Pct(12) + 340,
                                         !.updated_at = 1]
    /\ sheets[2] = OtherSheet
    /\ items[1] = ItemRow(1, Qty(2), "SAR", Money(1000), NoOverrides)

\* C18 as stated: every successful inline edit, of a sheet parameter, an
\* item margin or another item field, answers with the dependent figures
\* recomputed from the state the edit left in storage
C18_EditReturnsFigures ==
    (req.op \in FieldEdits /\ resp.kind # "error") =>
        /\ resp.kind = "computed"
        /\ req.op # "ajax_update_sheet_params" =>
              \A n \in DOMAIN ComputedKeys :
                  resp.computed[ComputedKeys[n]] =
                      Prop(Primed(db, req.pk, rates,
                                  sheets[SheetOfItem(db, req.pk)]),
                           rates, ComputedKeys[n])

\* the item fields that fall back to sheet default d
ItemFieldsOf(d) == {f \in PctFields : SheetField[f] = d}

\* C19: once a sheet default has been changed, the next read of every
\* item of that sheet whose override for the field is null gives the new
\* default as its effective value although the item was not edited, and
\* every item whose override is set still reads its override, through
\* an instance loaded plain or with both caches set
C19_DefaultChangeReachesItems ==
    [][(req'.op = "ajax_update_sheet_params" /\ resp'.kind = "ok")
        => \A f \in ItemFieldsOf(req'.field) :
           \A i \in ItemsOfSheet(db', req'.pk) :
              /\ items'[i] = items[i]
              /\ effective(Loaded(db', i), f) =
                    (IF IsNone(items[i][f])
                     THEN sheets'[req'.pk][req'.field]
                     ELSE Val(items[i][f]))
              /\ effective(Primed(db', i, rates', sheets'[req'.pk]), f) =
                    effective(Loaded(db', i), f)]_vars

\* sheet 1 after its margin default was changed: item 1, which inherits,
\* reads the stored new margin and item 2 still reads its own 100
C19_Witness ==
    /\ req.op = "ajax_update_sheet_params"
    /\ req.pk = 1
    /\ req.field = "margin"
    /\ resp = Ok
    /\ sheets[1].margin # ScenarioSheet.margin
    /\ IsNone(items[1].margin)
    /\ effective(Loaded(db, 1), "margin") = sheets[1].margin
    /\ items[2].margin = Some(Pct(100))
    /\ effective(Loaded(db, 2), "margin") = Pct(100)

(* ================================================================== *)
(* Claims checked under SpecInstance                                   *)
(* ================================================================== *)
\* C20: a read of a derived figure changes no input of the item, its
\* sheet or the catalog, keeps every figure derived before at its value
\* and stores what it returns, so a figure read again on unchanged
\* inputs comes back with the value it had the first time
C20_PipelineIsIdempotent ==
    [][resp'.kind = "read" =>
        /\ Fresh(obj') = Fresh(obj)
        /\ <<rates', sheets', sections', items'>> =
              <<rates, sheets, sections, items>>
        /\ \A k \in DOMAIN obj._computed :
              /\ k \in DOMAIN obj'._computed
              /\ obj'._computed[k] = obj._computed[k]
        /\ resp'.prop \in DOMAIN obj'._computed
        /\ obj'._computed[resp'.prop] = resp'.value
        /\ resp'.prop \in DOMAIN obj._computed =>
              resp'.value = obj._computed[resp'.prop]
        /\ (resp.kind = "read" /\ resp.prop = resp'.prop) =>
              resp'.value = resp.value]_vars

\* discount_amount read on an instance nothing has edited and whose
\* final_total_price was read before: that earlier read ran every body
\* it depends on, discount_amount among them, so this is a second
\* invocation on the same inputs
C20_Witness ==
    /\ resp.kind = "read"
    /\ resp.prop = "discount_amount"
    /\ edits = 0
    /\ "final_total_price" \in DOMAIN obj._computed
    /\ DOMAIN obj._computed = Props
    /\ resp.value = Prop(Fresh(obj), CatalogOf(obj), "discount_amount")

(* ================================================================== *)
(* Further claims checked under Spec                                   *)
(* ================================================================== *)
\* the items of the answered sheet stored with quantity 0
ZeroQuantityItems == {i \in DetailItems : items[i].quantity = 0}

\* C21: a line item with quantity 0 is priced without error: its
\* total_cost, base_total_price and final_total_price are 0, and the
\* section subtotals and sheet totals the detail view installs are the
\* ones it would install without the item
C21_ZeroQuantityPricesToZero ==
    resp.kind = "detail" =>
        \A i \in ZeroQuantityItems :
           /\ total_cost(DetailInst[i]) = 0
           /\ base_total_price(DetailInst[i], rates) = 0
           /\ final_total_price(DetailInst[i], rates) = 0
           /\ ~exchange_rate_raises(Loaded(db, i), rates) =>
                 /\ total_cost(Loaded(db, i)) = 0
                 /\ base_total_price(Loaded(db, i), rates) = 0
                 /\ final_total_price(Loaded(db, i), rates) = 0
           /\ resp.totals =
                 SheetTotals(DetailItems \ {i}, DetailInst, rates)
           /\ resp.subtotals[items[i].section] =
                 SectionSubtotals(ItemsOf(db, items[i].section) \ {i},
                                  DetailInst, rates)

\* the detail view of sheet 1 with one item at quantity 0 beside one
\* that still carries the sheet's grand total
C21_Witness ==
    /\ resp.kind = "detail"
    /\ resp.pk = 1
    /\ ZeroQuantityItems # {}
    /\ DetailItems \ ZeroQuantityItems # {}
    /\ resp.totals.grand_total > 0
    /\ \E i \in ZeroQuantityItems : items[i].base_unit_cost > 0

\* C22 as stated: every figure the Excel and PDF exports read from a
\* line item is one the item defines, so the export of a sheet that has
\* at least one line item completes with the items' figures
C22_ExportCompletes ==
    (/\ req.op \in {"costing_export_excel", "costing_export_pdf"}
     /\ ItemsOfSheet(db, req.pk) # {}) =>
        /\ resp.kind \in {"excel", "pdf"}
        /\ resp.pk = req.pk

\* C23 as stated: after any sequence of create, form-edit, inline-edit
\* and Excel-import operations every stored line item has quantity >= 0
C23_QuantityNonNegative ==
    \A i \in DOMAIN items : items[i].quantity >= 0

\* C24: deleting a sheet deletes its sections and their line items and
\* deleting a section deletes its line items, so after any sequence of
\* create and delete operations every section's sheet and every line
\* item's section exist
C24_NoOrphans ==
    /\ \A s \in DOMAIN sections : sections[s].costing_sheet \in DOMAIN sheets
    /\ \A i \in DOMAIN items : items[i].section \in DOMAIN sections
    /\ req.op = "CostingDeleteView" =>
          /\ req.pk \notin DOMAIN sheets
          /\ \A s \in DOMAIN sections : sections[s].costing_sheet # req.pk
    /\ req.op = "SectionDeleteView" =>
          /\ req.pk \notin DOMAIN sections
          /\ \A i \in DOMAIN items : items[i].section # req.pk

\* sheet 1 deleted as the second operation: its sections and all their
\* items are gone, sheet 2 keeps its section and item
C24_Witness ==
    /\ req.op = "CostingDeleteView"
    /\ req.pk = 1
    /\ edits = 2
    /\ DOMAIN sheets = {2}
    /\ DOMAIN sections = {3}
    /\ DOMAIN items = {3}

(* ================================================================== *)
(* SpecEdits: the inline-edit endpoints taken in their two database    *)
(* steps, the SELECT of get_object_or_404 and the UPDATE of save(),    *)
(* with two requests in progress at once.  save() is called without    *)
(* update_fields, so it writes every column of the instance as loaded. *)
(* ================================================================== *)
Workers == {1, 2}

\* the instances the requests in progress hold, and the edits completed
InFlight == IF running.at = "edits" THEN running.loaded
            ELSE [w \in Workers |-> None]
Completed == IF running.at = "edits" THEN running.done ELSE <<>>

Started == Cardinality({w \in Workers : ~IsNone(InFlight[w])})

\* get_object_or_404 and the assignment of the one field: the instance
\* holds the value as assigned, its column will store it at two decimals
LoadAndSet(w, op, table, pk, field, row, assigned, stored) ==
    /\ IsNone(InFlight[w])
    /\ edits + Started < MaxEdits
    /\ running' = [at |-> "edits",
                   loaded |-> [InFlight EXCEPT ![w] =
                       Some([op |-> op, table |-> table, pk |-> pk,
                             field |-> field, stored |-> stored,
                             row |-> [row EXCEPT ![field] = assigned]])],
                   done |-> Completed]
    /\ UNCHANGED <<rates, sheets, sections, items, obj, resp, edits, req,
                 notifications>>

\* ajax_update_sheet_params up to sheet.save()
BeginSheetEdit ==
    \E w \in Workers, pk \in DOMAIN sheets,
       field \in {"margin", "shipping_rate"} :
          LoadAndSet(w, "ajax_update_sheet_params", "sheets", pk, field,
                     sheets[pk], Pct(12) + 345,
                     StoreDecimal(Pct(12) + 345))

\* ajax_update_item_margin up to item.save()
BeginItemMarginEdit ==
    \E w \in Workers, pk \in DOMAIN items :
          LoadAndSet(w, "ajax_update_item_margin", "items", pk, "margin",
                     items[pk], Some(Pct(150)),
                     StoreOptional(Some(Pct(150))))

\* ajax_update_item_field up to item.save()
BeginItemFieldEdit ==
    \E w \in Workers, pk \in DOMAIN items :
       \/ LoadAndSet(w, "ajax_update_item_field", "items", pk,
                     "base_unit_cost", items[pk], Money(12) + 345,
                     StoreDecimal(Money(12) + 345))
       \/ LoadAndSet(w, "ajax_update_item_field", "items", pk,
                     "discount_pct", items[pk], Some(Pct(5)),
                     StoreOptional(Some(Pct(5))))

\* save() and the response: the whole row is written as the instance
\* holds it; ajax_update_item_field then answers with the figures of
\* its instance under the rates and the sheet read after the save
SaveEdit ==
    \E w \in Workers :
       /\ ~IsNone(InFlight[w])
       /\ LET e == Val(InFlight[w])
              written == [e.row EXCEPT ![e.field] = e.stored]
              primed == set_sheet_cache(
                            set_exchange_rates_cache(
                                NewInstance(e.row,
                                    sheets[SheetOfItem(db, e.pk)]), rates),
                            sheets[SheetOfItem(db, e.pk)])
              after == AfterReads(primed, rates, ComputedKeys)
          IN /\ IF e.table = "sheets"
                THEN /\ sheets' = [sheets EXCEPT ![e.pk] =
                            [written EXCEPT !.updated_at = edits + 1]]
                     /\ items' = items
                ELSE /\ items' = [items EXCEPT ![e.pk] = written]
                     /\ sheets' = sheets
             /\ IF e.op = "ajax_update_item_field"
                THEN /\ obj' = after
                     /\ resp' = [kind |-> "computed", pk |-> e.pk,
                                 computed |->
                                    [k \in {ComputedKeys[n] : n \in 1..6} |->
                                        after._computed[k]]]
                ELSE /\ obj' = obj
                     /\ resp' = Ok
             /\ req' = Request(e.op, e.pk, e.field, e.stored)
             /\ running' = [at |-> "edits",
                            loaded |-> [InFlight EXCEPT ![w] = None],
                            done |-> Append(Completed,
                                [table |-> e.table, pk |-> e.pk,
                                 field |-> e.field, stored |-> e.stored])]
       /\ edits' = edits + 1
       /\ UNCHANGED <<rates, sections, notifications>>

NextEdits ==
    \/ BeginSheetEdit
    \/ BeginItemMarginEdit
    \/ BeginItemFieldEdit
    \/ SaveEdit

SpecEdits == Init /\ [][NextEdits]_vars

\* the stored value of the field a completed edit set
StoredField(e) ==
    IF e.table = "sheets" THEN sheets[e.pk][e.field]
    ELSE items[e.pk][e.field]

\* C25 as stated: every inline edit acts as one atomic unit, so when
\* edits of different fields of one line item or sheet are interleaved
\* each edited field holds its new value afterwards: a completed edit's
\* value stays in its field until a later edit of that same field
C25_NoLostUpdate ==
    \A n \in DOMAIN Completed :
       (\A m \in DOMAIN Completed :
           m > n => ~(/\ Completed[m].table = Completed[n].table
                      /\ Completed[m].pk = Completed[n].pk
                      /\ Completed[m].field = Completed[n].field))
       => StoredField(Completed[n]) = Completed[n].stored

\* C26 as stated: for every line item and every catalog state (an entry
\* missing, a rate equal to 0, or both entries present and non-zero)
\* exchange_rate_to_sar gives the same factor with a preloaded rates
\* snapshot as with the per-item catalog lookup, and neither path raises
C26_SnapshotEqualsLookup ==
    \A i \in DOMAIN items :
       LET preloaded == Primed(db, i, rates, sheets[SheetOfItem(db, i)])
           lookup == Loaded(db, i)
       IN /\ ~exchange_rate_raises(preloaded, rates)
          /\ ~exchange_rate_raises(lookup, rates)
          /\ exchange_rate_to_sar(preloaded, rates)
                = exchange_rate_to_sar(lookup, rates)

\* C27 as stated: the computed figures a successful item-field edit
\* returns equal the figures obtained by loading the same item from
\* storage afterwards and running the pipeline against the same sheet
\* and rates, for every accepted value, one with more than two decimal
\* places included
C27_FiguresMatchStorage ==
    (req.op = "ajax_update_item_field" /\ resp.kind = "computed")
    => \A n \in 1..6 :
          resp.computed[ComputedKeys[n]]
             = Prop(Primed(db, req.pk, rates,
                           sheets[SheetOfItem(db, req.pk)]),
                    rates, ComputedKeys[n])

\* the product of two factors held in millionths, in millionths
FactorProduct(a, b) == MulDivQR(a, b, Micro).q

\* C28 as stated: for every currency X in the catalog with a non-zero
\* rate, the factor converting supplier currency X into SAR times the
\* factor converting SAR into output currency X is 1 up to the rounding
\* of the two factors to 6 decimals, so an amount costed in X and shown
\* in X is not scaled by the exchange rate
C28_RoundTripIsOne ==
    \A i \in DOMAIN items :
       LET X == items[i].supplier_currency
           sh == sheets[SheetOfItem(db, i)]
           to_sar == exchange_rate_to_sar(Primed(db, i, rates, sh), rates)
           from_sar == _conversion_rate(sh.output_currency, rates)
           slack == (to_sar + from_sar) \div Micro + 1
       IN (/\ sh.output_currency = X
           /\ X \in DOMAIN rates
           /\ rates[X] # 0)
          => /\ FactorProduct(to_sar, from_sar) >= Micro - slack
             /\ FactorProduct(to_sar, from_sar) <= Micro + slack

\* the precondition of C29 on one line item: base cost and quantity not
\* negative, effective discount within 0..100 %, effective margin in
\* [0 %, 100 %)
WellFormedItem(o) ==
    /\ o.base_unit_cost >= 0
    /\ o.quantity >= 0
    /\ effective_discount_pct(o) >= 0
    /\ effective_discount_pct(o) <= Pct(100)
    /\ effective_margin(o) >= 0
    /\ effective_margin(o) < Pct(100)

\* C29 as stated: for any sheet whose line items all have non-negative
\* base cost and quantity, an effective discount between 0 % and 100 %
\* and an effective margin in [0 %, 100 %), total_margin_amount is >= 0,
\* whatever the supplier currencies and the rate catalog
C29_MarginAmountNonNegative ==
    \A pk \in DOMAIN sheets :
       LET S == ItemsOfSheet(db, pk)
           inst == [i \in S |-> Primed(db, i, rates, sheets[pk])]
       IN (\A i \in S : WellFormedItem(inst[i]))
          => SheetTotals(S, inst, rates).total_margin_amount >= 0

(* ================================================================== *)
(* SpecStatus: CostingUpdateView.form_valid in its database steps, the *)
(* read of old_status and the save of the form followed by the         *)
(* notification, with two updates in progress at once.                 *)
(* ================================================================== *)
\* the active users with the admin role, and each sheet's project owner
AdminUsers == {1, 2}
ProjectOwner == [pk \in {1, 2} |-> 3]

\* test_func: an admin or the sheet's creator (here also its project's
\* owner) may post the form
Editors == {1, 3}

\* the updates in progress: their posted form and the old_status read
Updating == IF running.at = "updates" THEN running.loaded
            ELSE [w \in Workers |-> None]

UpdatesStarted == Cardinality({w \in Workers : ~IsNone(Updating[w])})

\* notify_users: one notification per recipient, the actor skipped
notify_users(recipients, actor, target) ==
    [target |-> target, actor |-> actor,
     recipients |-> {u \in recipients : u # actor}]

\* form_valid up to the call of super().form_valid: the form carries the
\* posted status, old_status is read from the stored row
ReadOldStatus ==
    \E w \in Workers, pk \in DOMAIN sheets, user \in Editors,
       status \in {"draft", "final"} :
          /\ IsNone(Updating[w])
          /\ edits + UpdatesStarted < MaxEdits
          /\ running' = [at |-> "updates",
                         loaded |-> [Updating EXCEPT ![w] =
                            Some([pk |-> pk, user |-> user,
                                  old_status |-> sheets[pk].status,
                                  object |-> [sheets[pk] EXCEPT
                                                 !.status = status]])]]
          /\ UNCHANGED <<rates, sheets, sections, items, obj, resp, edits,
                         req, notifications>>

\* super().form_valid saves the form's instance; a batch is sent when
\* old_status is draft and the saved status is final
SaveAndNotify ==
    \E w \in Workers :
       /\ ~IsNone(Updating[w])
       /\ LET u == Val(Updating[w])
          IN /\ sheets' = [sheets EXCEPT ![u.pk] =
                    [u.object EXCEPT !.updated_at = edits + 1]]
             /\ notifications' =
                    IF u.old_status = "draft" /\ u.object.status = "final"
                    THEN Append(notifications,
                            notify_users(AdminUsers \cup {ProjectOwner[u.pk]},
                                         u.user, u.pk))
                    ELSE notifications
             /\ req' = Request("CostingUpdateView", u.pk, "status",
                               u.object.status)
             /\ resp' = [kind |-> "redirect", pk |-> u.pk]
       /\ running' = [at |-> "updates",
                      loaded |-> [Updating EXCEPT ![w] = None]]
       /\ edits' = edits + 1
       /\ UNCHANGED <<rates, sections, items, obj>>

NextStatus ==
    \/ ReadOldStatus
    \/ SaveAndNotify

SpecStatus == Init /\ [][NextStatus]_vars

\* C30 as stated: over any sequence of sheet updates, interleaved ones
\* included, a finalized batch is created exactly once for each change
\* of a sheet's stored status from draft to final and never for an
\* update that leaves it final, moves it from final to draft or keeps it
\* draft, and the user performing the update is never a recipient
C30_OneBatchPerFinalization ==
    /\ [][\A pk \in DOMAIN sheets :
            LET sent == {n \in DOMAIN notifications' :
                            /\ n > Len(notifications)
                            /\ notifications'[n].target = pk}
            IN IF sheets[pk].status = "draft" /\ sheets'[pk].status = "final"
               THEN Cardinality(sent) = 1
               ELSE sent = {}]_vars
    /\ [](\A n \in DOMAIN notifications :
             notifications[n].actor \notin notifications[n].recipients)

======================================================================
